---------------------------- MODULE Spec2Model ----------------------------
(***************************************************************************)
(* Model of mcp-server-bold (src/src/mcp_server_bold/server.py): the tool  *)
(* boundary call_tool and the fetch pipeline base_fetch.                   *)
(*                                                                         *)
(* Text is a sequence of one-character strings.  A Python dict is a        *)
(* sequence of <<key, value>> pairs with distinct keys, in insertion       *)
(* order.  A response body is a sequence of bytes; the bytes "C3" "A9" are *)
(* the two-byte UTF-8 encoding of one character, every other byte is       *)
(* ASCII.                                                                  *)
(***************************************************************************)
EXTENDS Integers, Sequences, FiniteSets, TLC

\* ------------------------------------------------------------------ bounds
MaxInFlight == 2     \* concurrent call_tool invocations awaiting their GET
MaxCuts == 1         \* chunk boundaries the response stream may introduce
MaxCutPos == 8       \* a chunk boundary falls within this many leading bytes
LargeRows == 2001    \* data rows of the oversized TSV body

\* --------------------------------------------------------- module constants
API_BASE_URL == "http://v3.boldsystems.org/index.php/API_Public/"
DEFAULT_PARAMETERS_0 == << <<"format", <<"t", "s", "v">>>> >>

TAB == "\t"
NL == "\n"
None == <<"None">>   \* Python's None, distinct from every text over the alphabet

Min(a, b) == IF a < b THEN a ELSE b

\* JSON-serializable Python values, by type: str, None, dict, list.
Str(t) == [t |-> "str", v |-> t]
Null == [t |-> "null", v |-> <<>>]
Dict(d) == [t |-> "dict", v |-> d]
List(l) == [t |-> "list", v |-> l]

\* ------------------------------------------------------------ dict helpers
Keys(d) == {d[i][1] : i \in 1..Len(d)}

HasKey(d, k) == k \in Keys(d)

IndexOf(d, k) == CHOOSE i \in 1..Len(d) : d[i][1] = k

DictGet(d, k) == IF HasKey(d, k) THEN d[IndexOf(d, k)][2] ELSE None

\* d[k] = v: an existing key keeps its position, a new key goes last.
DictSet(d, k, v) ==
    IF HasKey(d, k)
    THEN [i \in 1..Len(d) |-> IF d[i][1] = k THEN <<k, v>> ELSE d[i]]
    ELSE Append(d, <<k, v>>)

RECURSIVE DictUpdate(_, _)
DictUpdate(d, e) ==
    IF e = <<>> THEN d
    ELSE DictUpdate(DictSet(d, e[1][1], e[1][2]), Tail(e))

DictPop(d, k) == SelectSeq(d, LAMBDA p : p[1] # k)

\* ------------------------------------------------------------- str helpers
\* s.split(sep) over positions lo..hi: the pieces between separators.
RECURSIVE Pieces(_, _, _, _)
Pieces(s, sep, lo, hi) ==
    IF lo > hi THEN << <<>> >>
    ELSE IF lo = hi
    THEN IF s[lo] = sep THEN << <<>>, <<>> >> ELSE << <<s[lo]>> >>
    ELSE LET mid == (lo + hi) \div 2
             L == Pieces(s, sep, lo, mid)
             R == Pieces(s, sep, mid + 1, hi)
         IN  SubSeq(L, 1, Len(L) - 1) \o <<L[Len(L)] \o R[1]>> \o Tail(R)

Split(s, sep) == Pieces(s, sep, 1, Len(s))

\* str.splitlines(): the pieces between line breaks, without a last empty one.
SplitLines(s) ==
    LET p == Split(s, NL)
    IN  IF p[Len(p)] = <<>> THEN SubSeq(p, 1, Len(p) - 1) ELSE p

\* '&'.join(parts)
RECURSIVE Join(_, _)
Join(parts, sep) ==
    IF parts = <<>> THEN <<>>
    ELSE IF Len(parts) = 1 THEN parts[1]
    ELSE parts[1] \o <<sep>> \o Join(Tail(parts), sep)

\* requests.utils.quote of one character: unreserved characters and "/" pass.
QuoteChar(c) ==
    CASE c = " " -> <<"%", "2", "0">>
      [] c = "&" -> <<"%", "2", "6">>
      [] c = "|" -> <<"%", "7", "C">>
      [] c = "=" -> <<"%", "3", "D">>
      [] OTHER -> <<c>>

RECURSIVE Quote(_)
Quote(v) == IF v = <<>> THEN <<>> ELSE QuoteChar(v[1]) \o Quote(Tail(v))

\* bytes.decode('utf-8'): a lead byte needs its continuation byte in the chunk.
DecodeOk(b) ==
    \A i \in 1..Len(b) :
        /\ b[i] = "C3" => (i < Len(b) /\ b[i + 1] = "A9")
        /\ b[i] = "A9" => (i > 1 /\ b[i - 1] = "C3")

Decode(b) ==
    LET t == SelectSeq(b, LAMBDA x : x # "A9")
    IN  [i \in 1..Len(t) |-> IF t[i] = "C3" THEN "e'" ELSE t[i]]

\* dict(zip(headers, cells))
RECURSIVE ZipDict(_, _, _)
ZipDict(headers, cells, acc) ==
    IF headers = <<>> \/ cells = <<>> THEN acc
    ELSE ZipDict(Tail(headers), Tail(cells), DictSet(acc, headers[1], Str(cells[1])))

\* ------------------------------------------------------------ xmltodict
XmlNames == {"r", "e", "m"}
Whitespace == {NL, TAB, " "}

\* The tags and character data of s from position i; a "bad" token ends the
\* scan where the markup is not well formed.
RECURSIVE Tokens(_, _)
Tokens(s, i) ==
    IF i > Len(s) THEN <<>>
    ELSE IF s[i] = "<"
    THEN IF i + 2 <= Len(s) /\ s[i + 1] \in XmlNames /\ s[i + 2] = ">"
         THEN <<[k |-> "open", n |-> s[i + 1]]>> \o Tokens(s, i + 3)
         ELSE IF /\ i + 3 <= Len(s)
                 /\ s[i + 1] = "/"
                 /\ s[i + 2] \in XmlNames
                 /\ s[i + 3] = ">"
         THEN <<[k |-> "close", n |-> s[i + 2]]>> \o Tokens(s, i + 4)
         ELSE <<[k |-> "bad", n |-> s[i]]>>
    ELSE <<[k |-> "text", n |-> s[i]]>> \o Tokens(s, i + 1)

RECURSIVE Strip(_)
Strip(t) ==
    IF t = <<>> THEN t
    ELSE IF t[1] \in Whitespace THEN Strip(Tail(t))
    ELSE IF t[Len(t)] \in Whitespace THEN Strip(SubSeq(t, 1, Len(t) - 1))
    ELSE t

\* xmltodict's push_data: a repeated sibling turns the entry into a list.
Attach(children, n, val) ==
    IF ~HasKey(children, n) THEN DictSet(children, n, val)
    ELSE LET old == DictGet(children, n)
         IN  IF old.t = "list"
             THEN DictSet(children, n, List(Append(old.v, val)))
             ELSE DictSet(children, n, List(<<old, val>>))

\* xmltodict's endElement: the value of a finished element.
ElementValue(frame) ==
    LET data == Strip(frame.text)
    IN  IF frame.children = <<>>
        THEN IF data = <<>> THEN Null ELSE Str(data)
        ELSE IF data = <<>> THEN Dict(frame.children)
        ELSE Dict(DictSet(frame.children, "#text", Str(data)))

XmlError == [ok |-> FALSE, value |-> Null]

RECURSIVE XmlFold(_, _, _, _)
XmlFold(toks, k, stack, root) ==
    IF k > Len(toks)
    THEN IF stack = <<>> /\ root.set
         THEN [ok |-> TRUE, value |-> root.value]
         ELSE XmlError
    ELSE LET tok == toks[k]
             depth == Len(stack)
         IN  CASE tok.k = "bad" -> XmlError
               [] tok.k = "open" ->
                    IF depth = 0 /\ root.set THEN XmlError
                    ELSE XmlFold(toks, k + 1,
                            Append(stack, [name |-> tok.n, text |-> <<>>,
                                           children |-> <<>>]),
                            root)
               [] tok.k = "text" ->
                    IF depth = 0
                    THEN IF tok.n \in Whitespace
                         THEN XmlFold(toks, k + 1, stack, root)
                         ELSE XmlError
                    ELSE XmlFold(toks, k + 1,
                            [stack EXCEPT ![depth].text = Append(@, tok.n)],
                            root)
               [] tok.k = "close" ->
                    IF depth = 0 \/ stack[depth].name # tok.n THEN XmlError
                    ELSE LET val == ElementValue(stack[depth])
                             rest == SubSeq(stack, 1, depth - 1)
                         IN  IF depth = 1
                             THEN XmlFold(toks, k + 1, rest,
                                    [set |-> TRUE,
                                     value |-> Dict(<<<<tok.n, val>>>>)])
                             ELSE XmlFold(toks, k + 1,
                                    [rest EXCEPT ![depth - 1].children =
                                        Attach(@, tok.n, val)],
                                    root)

\* xmltodict.parse(text): [ok, value]; ok is FALSE where expat raises.
XmlParse(text) ==
    XmlFold(Tokens(text, 1), 1, <<>>, [set |-> FALSE, value |-> Null])

\* ------------------------------------------------------------ base_fetch
\* {**DEFAULT_PARAMETERS, **kwargs}: the dict display builds a new dict; the
\* module-level dict is only read.
MergeDefaults_InPlace(defaults, kwargs) ==
    LET updated == DictUpdate(defaults, kwargs)
    IN  [query_params |-> updated,
         DEFAULT_PARAMETERS |-> DictPop(updated, "search")]

MergeDefaults(defaults, kwargs) ==
    [query_params |-> DictUpdate(defaults, kwargs),
     DEFAULT_PARAMETERS |-> defaults]

\* f"{key}={quote(str(value))}" for one item
QueryField(pair) == <<pair[1], "=">> \o Quote(pair[2])

KeepField_All(pair) == TRUE

\* The comprehension's filter: if value != ""
KeepField(pair) == pair[2] # <<>>

\* '&'.join of the kept items, in the dict's iteration order
QueryString(query_params) ==
    LET kept == SelectSeq(query_params, KeepField)
    IN  Join([i \in 1..Len(kept) |-> QueryField(kept[i])], "&")

\* f"{API_BASE_URL}{search}?{query_string}"
QueryUrl(search, query_string) ==
    <<API_BASE_URL>> \o search \o <<"?">> \o query_string

\* Response.raise_for_status() lets only 2xx pass.
IsSuccess(status) == status \in 200..299

StatusText(status) ==
    CASE status = 200 -> "200"
      [] status = 404 -> "404"
      [] status = 500 -> "500"
      [] OTHER -> "???"

\* json.dumps(obj): the JSON text of obj, kept apart from obj itself.
JsonDumps(obj) == [json |-> obj]

Raised(type, text) ==
    [raised |-> TRUE, type |-> type, text |-> text, json_data |-> Null]
Parsed(json_data) ==
    [raised |-> FALSE, type |-> "", text |-> "", json_data |-> json_data]

\* The tsv branch: each chunk is decoded and split on its own; the first line
\* of the first chunk gives the headers, and every chunk contributes lines[1:].
RECURSIVE TsvLoop(_, _, _, _)
TsvLoop(chunks, k, headers, json_data) ==
    IF k > Len(chunks) THEN Parsed(List(json_data))
    ELSE IF ~DecodeOk(chunks[k])
    THEN Raised("UnicodeDecodeError", "'utf-8' codec can't decode byte")
    ELSE LET lines == SplitLines(Decode(chunks[k]))
         IN  IF ~headers.set /\ lines = <<>>
             THEN Raised("IndexError", "list index out of range")
             ELSE LET hs == IF headers.set THEN headers.value
                            ELSE Split(lines[1], TAB)
                      rows == [i \in 1..(Len(lines) - 1) |->
                                  Dict(ZipDict(hs, Split(lines[i + 1], TAB), <<>>))]
                  IN  TsvLoop(chunks, k + 1, [set |-> TRUE, value |-> hs],
                              json_data \o rows)

ParseTsv(chunks) == TsvLoop(chunks, 1, [set |-> FALSE, value |-> <<>>], <<>>)

\* The xml branch: every chunk is appended to xml_data and the bytes received
\* so far are decoded and parsed; json_data is the last parse.
RECURSIVE XmlLoop(_, _, _, _)
XmlLoop(chunks, k, xml_data, last) ==
    IF k > Len(chunks)
    THEN IF last.set THEN Parsed(last.value)
         ELSE Raised("UnboundLocalError",
                     "local variable 'json_data' referenced before assignment")
    ELSE LET data == xml_data \o chunks[k]
         IN  IF ~DecodeOk(data)
             THEN Raised("UnicodeDecodeError", "'utf-8' codec can't decode byte")
             ELSE LET doc == XmlParse(Decode(data))
                  IN  IF ~doc.ok THEN Raised("ExpatError", "not well-formed")
                      ELSE XmlLoop(chunks, k + 1, data,
                                   [set |-> TRUE, value |-> doc.value])

ParseXml(chunks) == XmlLoop(chunks, 1, <<>>, [set |-> FALSE, value |-> Null])

TSV == <<"t", "s", "v">>
XML == <<"x", "m", "l">>
CSV == <<"c", "s", "v">>

\* The format dispatch of lines 100-118.
ParseBody(format, chunks) ==
    IF format = TSV THEN ParseTsv(chunks)
    ELSE IF format = XML THEN ParseXml(chunks)
    ELSE Raised("ValueError", "Unsupported format requested.")

\* The four except clauses and the normal return.
TimeoutMessage(text) ==
    <<text, ", likely need to narrow search to fewer specimen">>

HttpStatusMessage_WithBody(status, body) ==
    <<"HTTP error occurred: ", StatusText(status), " - ">> \o Decode(body)

HttpStatusMessage(status, body) ==
    <<"HTTP error occurred: ", StatusText(status)>>

RequestErrorMessage(text) == <<"HTTP RequestError occurred: ", text>>

ExceptionMessage(text) == <<"Error occurred: ", text>>

ErrorPayload(phase, message) ==
    [phase |-> phase, value |-> JsonDumps(Dict(<<<<"message", Str(message)>>>>))]

FetchReturn_Uncaught(query_params, outcome) ==
    CASE outcome.kind \in {"timeout", "cancelled"} ->
            ErrorPayload("TransportError", TimeoutMessage(outcome.text))
      [] outcome.kind = "network" ->
            ErrorPayload("TransportError", RequestErrorMessage(outcome.text))
      [] outcome.kind = "response" /\ ~IsSuccess(outcome.status) ->
            ErrorPayload("HTTPError",
                         HttpStatusMessage(outcome.status, outcome.body))
      [] OTHER ->
            LET p == ParseBody(DictGet(query_params, "format"), outcome.chunks)
            IN  IF p.raised
                THEN [phase |-> "Escaped", value |-> JsonDumps(Null)]
                ELSE [phase |-> "ParseOK", value |-> JsonDumps(p.json_data)]

\* What base_fetch returns once the awaited GET has ended with `outcome`.
FetchReturn(query_params, outcome) ==
    CASE outcome.kind \in {"timeout", "cancelled"} ->
            ErrorPayload("TransportError", TimeoutMessage(outcome.text))
      [] outcome.kind = "network" ->
            ErrorPayload("TransportError", RequestErrorMessage(outcome.text))
      [] outcome.kind = "response" /\ ~IsSuccess(outcome.status) ->
            ErrorPayload("HTTPError",
                         HttpStatusMessage(outcome.status, outcome.body))
      [] OTHER ->
            LET p == ParseBody(DictGet(query_params, "format"), outcome.chunks)
            IN  IF p.raised
                THEN ErrorPayload("ParseError", ExceptionMessage(p.text))
                ELSE [phase |-> "ParseOK", value |-> JsonDumps(p.json_data)]

\* ------------------------------------------------------------- call_tool
\* Lines 171-175: a new dict without the None values, format defaulted; the
\* caller's mapping is only read.
CallToolPrologue(args) ==
    LET present == SelectSeq(args, LAMBDA p : p[2] # None)
    IN  [query_params |-> IF HasKey(present, "format") THEN present
                          ELSE DictSet(present, "format", TSV),
         arguments |-> args]

SPECIMEN == "specimen-search"
SEQUENCE_SPECIMEN == "combined-search"

Recognized(name) == name \in {SPECIMEN, SEQUENCE_SPECIMEN}

SearchKind(name) == IF name = SPECIMEN THEN <<"specimen">> ELSE <<"combined">>

WithSearch_SetDefault(query_params, name) ==
    IF HasKey(query_params, "search") THEN query_params
    ELSE DictSet(query_params, "search", SearchKind(name))

\* query_params["search"] = ... in the matching arm
WithSearch(query_params, name) == DictSet(query_params, "search", SearchKind(name))

ResultPrefix(name) ==
    IF name = SPECIMEN THEN "Specimen returned:\n"
    ELSE "Specimen with sequences returned:\n"

\* [TextContent(type="text", text=f"...{json.dumps(data)}")]
ToolContent(name, data) ==
    <<[type |-> "text", prefix |-> ResultPrefix(name), body |-> JsonDumps(data)]>>

\* ------------------------------------------------------------ environment
ToolNames == {SPECIMEN, SEQUENCE_SPECIMEN, "taxon-search"}

AB == <<"A", " ", "B">>
CD == <<"C", "&", "D">>
EVIL == <<"evil">>

\* Argument mappings a client may send (the JSON object of tools/call).
CoreArguments ==
    { <<>>,
      << <<"format", XML>>, <<"taxon", AB>> >>,
      << <<"format", CSV>> >>,
      << <<"taxon", <<>>>>, <<"ids", None>>, <<"search", EVIL>>,
         <<"format", TSV>> >> }

QueryArguments ==
    { <<>>,
      << <<"taxon", AB>>, <<"geo", CD>> >>,
      << <<"geo", CD>>, <<"taxon", AB>> >>,
      << <<"taxon", AB>>, <<"geo", CD>>, <<"format", TSV>> >>,
      << <<"format", XML>>, <<"taxon", AB>> >>,
      << <<"taxon", <<>>>>, <<"geo", <<>>>>, <<"ids", None>> >>,
      << <<"taxon", <<>>>>, <<"format", <<>>>> >>,
      << <<"search", EVIL>>, <<"ids", <<"1", "|", "2">>>> >> }

\* Response bodies the upstream may serve.
CoreBodies ==
    { <<>>,
      <<"a", TAB, "b", TAB, "c">>,
      <<"a", TAB, "b", TAB, "c", NL, "1", TAB, "2", TAB, "3">>,
      <<"a", TAB, "b", TAB, "c", NL, "1", TAB, "2">>,
      <<"a", NL, "1", NL, "2", NL>>,
      <<"a", NL, "C3", "A9">>,
      <<"<", "r", ">", "x", "<", "/", "r", ">">>,
      <<"<", "r", ">", "<", "e", ">", "x", "<", "/", "e", ">",
        "<", "e", ">", "<", "/", "e", ">", "<", "/", "r", ">", NL>>,
      <<"<", "r", ">", "x">> }

QueryBodies == { <<"a", NL, "1">> }

\* The clients and bodies of the liveness check: every format and every way
\* the GET can end.
FairArguments ==
    { <<>>,
      << <<"format", XML>>, <<"taxon", AB>> >>,
      << <<"format", CSV>> >> }

FairBodies ==
    { <<>>,
      <<"a", NL, "1">>,
      <<"<", "r", ">", "x">> }

\* A header and n data rows of one cell each.
TsvRows(n) ==
    [i \in 1..(2 * n + 2) |->
        IF i = 1 THEN "a" ELSE IF i % 2 = 0 THEN NL ELSE "1"]

LargeBodies == {TsvRows(LargeRows), TsvRows(LargeRows - 1)}

Statuses == {200, 404, 500}

\* The sets of at most k chunk boundaries among the positions P.
RECURSIVE CutSets(_, _)
CutSets(P, k) ==
    IF k = 0 THEN {{}}
    ELSE LET S == CutSets(P, k - 1)
         IN  S \cup {s \cup {p} : s \in S, p \in P}

\* The chunks of body from position lo on, cut after each position in cuts.
RECURSIVE ChunksFrom(_, _, _)
ChunksFrom(body, lo, cuts) ==
    IF cuts = {} THEN <<SubSeq(body, lo, Len(body))>>
    ELSE LET c == CHOOSE m \in cuts : \A o \in cuts : m <= o
         IN  <<SubSeq(body, lo, c)>> \o ChunksFrom(body, c + 1, cuts \ {c})

\* What response.aiter_bytes() may yield for body: nothing for an empty body,
\* else the body cut into non-empty chunks.
Chunkings(body) ==
    IF body = <<>> THEN {<<>>}
    ELSE {ChunksFrom(body, 1, cuts) :
            cuts \in CutSets(1..Min(Len(body) - 1, MaxCutPos), MaxCuts)}

Whole(body) == IF body = <<>> THEN <<>> ELSE <<body>>

\* How the awaited client.get() may end.
Outcomes(bodies) ==
    {[kind |-> k, text |-> k, status |-> 0, body |-> <<>>, chunks |-> <<>>] :
        k \in {"timeout", "cancelled", "network"}}
    \cup {[kind |-> "response", text |-> "", status |-> st, body |-> b,
           chunks |-> Whole(b)] : st \in Statuses \ {200}, b \in bodies}
    \cup UNION {{[kind |-> "response", text |-> "", status |-> 200, body |-> b,
                  chunks |-> ch] : ch \in Chunkings(b)} : b \in bodies}

\* ------------------------------------------------------------------- state
VARIABLES
    DEFAULT_PARAMETERS,  \* the module-level dict
    inflight,            \* the base_fetch frames suspended at `await client.get`
    returned,            \* the completion being handed to the protocol layer
    offered,             \* the argument mappings clients send
    served               \* the bodies the upstream serves

vars == <<DEFAULT_PARAMETERS, inflight, returned, offered, served>>

NoOutcome == [kind |-> "none", text |-> "", status |-> 0, body |-> <<>>,
              chunks |-> <<>>]
NoReturn == [outcome |-> "none"]

InitWith(args, bodies) ==
    /\ DEFAULT_PARAMETERS = DEFAULT_PARAMETERS_0
    /\ inflight = {}
    /\ returned = NoReturn
    /\ offered = args
    /\ served = bodies

Init == InitWith(CoreArguments, CoreBodies)

InitQuery == InitWith(QueryArguments, QueryBodies)

InitLarge == InitWith({<<>>}, LargeBodies)

InitFair == InitWith(FairArguments, FairBodies)

\* The keyword arguments call_tool passes to base_fetch.
Kwargs(name, args) == WithSearch(CallToolPrologue(args).query_params, name)

\* call_tool with a recognized name, up to the await in base_fetch: the
\* prologue, the match arm's search kind, then base_fetch lines 80-94.  The
\* frame holds the tools/call message, the caller's dict object, and
\* base_fetch's locals.
Frame(name, args, defaults) ==
    LET pro == CallToolPrologue(args)
        merged == MergeDefaults(defaults, Kwargs(name, args))
        params == DictPop(merged.query_params, "search")
        kind == DictGet(merged.query_params, "search")
        qs == QueryString(params)
    IN  [request |-> [name |-> name, arguments |-> args],
         arguments |-> pro.arguments,
         query_params |-> params,
         search |-> kind,
         query_string |-> qs,
         query_url |-> QueryUrl(kind, qs)]

CallTool ==
    /\ Cardinality(inflight) < MaxInFlight
    /\ \E name \in {n \in ToolNames : Recognized(n)}, args \in offered :
        /\ inflight' = inflight \cup {Frame(name, args, DEFAULT_PARAMETERS)}
        /\ DEFAULT_PARAMETERS' =
              MergeDefaults(DEFAULT_PARAMETERS, Kwargs(name, args)).DEFAULT_PARAMETERS
    /\ UNCHANGED <<returned, offered, served>>

\* call_tool with any other name: the prologue runs, no arm matches, and
\* ValueError leaves call_tool (lines 196-198).
CallUnknownTool ==
    /\ returned = NoReturn
    /\ \E name \in {n \in ToolNames : ~Recognized(n)}, args \in offered :
        LET pro == CallToolPrologue(args)
        IN  returned' = [outcome |-> "raised",
                         request |-> [name |-> name, arguments |-> args],
                         arguments |-> pro.arguments,
                         query_params |-> pro.query_params,
                         search |-> <<>>,
                         query_string |-> <<>>,
                         query_url |-> <<>>,
                         response |-> NoOutcome,
                         fetch |-> [phase |-> "Idle", value |-> JsonDumps(Null)],
                         error |-> [type |-> "ValueError",
                                    text |-> <<"Unknown tool: ", name>>],
                         content |-> <<>>]
    /\ UNCHANGED <<DEFAULT_PARAMETERS, inflight, offered, served>>

\* What call_tool returns for frame f once the GET has ended with `outcome`:
\* base_fetch runs to its return and the value is wrapped in one TextContent.
Completion(f, outcome) ==
    LET data == FetchReturn(f.query_params, outcome)
    IN  [outcome |-> "returned",
         request |-> f.request,
         arguments |-> f.arguments,
         query_params |-> f.query_params,
         search |-> f.search,
         query_string |-> f.query_string,
         query_url |-> f.query_url,
         response |-> outcome,
         fetch |-> data,
         error |-> [type |-> "", text |-> <<>>],
         content |-> ToolContent(f.request.name, data.value)]

Resume(f) ==
    /\ f \in inflight
    /\ returned = NoReturn
    /\ \E outcome \in Outcomes(served) : returned' = Completion(f, outcome)
    /\ inflight' = inflight \ {f}
    /\ UNCHANGED <<DEFAULT_PARAMETERS, offered, served>>

\* server.run sends the completion to the client.
Deliver ==
    /\ returned # NoReturn
    /\ returned' = NoReturn
    /\ UNCHANGED <<DEFAULT_PARAMETERS, inflight, offered, served>>

Next ==
    \/ CallTool
    \/ CallUnknownTool
    \/ \E f \in inflight : Resume(f)
    \/ Deliver

Spec == Init /\ [][Next]_vars

SpecQuery == InitQuery /\ [][Next]_vars

SpecLarge == InitLarge /\ [][Next]_vars

\* The frames the clients of the liveness check can put in flight.
FairFrames ==
    {Frame(name, args, DEFAULT_PARAMETERS_0) :
        name \in {n \in ToolNames : Recognized(n)}, args \in FairArguments}

\* The bounded timeout ends every awaited GET, and the protocol layer sends
\* every completion.
Fairness ==
    /\ \A f \in FairFrames : SF_vars(Resume(f))
    /\ WF_vars(Deliver)

FairSpec == InitFair /\ [][Next]_vars /\ Fairness

\* ------------------------------------------------------------------ claims
Done == returned.outcome = "returned"

Succeeded == Done /\ returned.response.kind = "response"
                  /\ IsSuccess(returned.response.status)

Format == DictGet(returned.query_params, "format")

IsErrorPayload(json) == json.t = "dict" /\ Keys(json.v) = {"message"}

\* The records of a TSV body read as a whole: one per line after the header,
\* pairing headers and cells by position.
ExpectedTsv(body) ==
    LET lines == SplitLines(Decode(body))
        hs == Split(lines[1], TAB)
    IN  List([i \in 1..(Len(lines) - 1) |->
                LET cells == Split(lines[i + 1], TAB)
                IN  Dict([j \in 1..Min(Len(hs), Len(cells)) |->
                            <<hs[j], Str(cells[j])>>])])

\* t occurs in m as a contiguous run.
Occurs(t, m) ==
    \E i \in 1..(Len(m) - Len(t) + 1) : SubSeq(m, i, i + Len(t) - 1) = t

\* C1: a successful tsv fetch whose parsed result has more than 2000 records
\* returns a wrapper with `commentary` and `data`, data being the first 2000
\* records; with at most 2000 records the parsed result is returned unwrapped.
C1_Truncation ==
    (Succeeded /\ Format = TSV /\ returned.fetch.phase = "ParseOK") =>
        LET parsed == ExpectedTsv(returned.response.body)
            json == returned.fetch.value.json
        IN  IF Len(parsed.v) > 2000
            THEN /\ json.t = "dict"
                 /\ Keys(json.v) = {"commentary", "data"}
                 /\ DictGet(json.v, "data") = List(SubSeq(parsed.v, 1, 2000))
            ELSE /\ json.t = "list"
                 /\ Len(json.v) = Len(parsed.v)

\* C2: whatever way the GET ends, a format other than tsv and xml yields the
\* "Unsupported format requested." validation error.
C2_UnsupportedFormat ==
    (Done /\ Format \notin {TSV, XML}) =>
        /\ returned.fetch.phase = "ParseError"
        /\ returned.fetch.value =
              JsonDumps(Dict(<<<<"message",
                    Str(<<"Error occurred: ", "Unsupported format requested.">>)>>>>))

\* C3: every invocation with a recognized tool name goes Idle -> RequestSent
\* -> (ParseOK | TransportError | HTTPError | ParseError) -> Done, reaches Done
\* exactly once, and returns a serialized result or a serialized error payload
\* with the single key `message`; no outcome lets an exception escape.
C3_Classified ==
    Done =>
        LET phase == returned.fetch.phase
            o == returned.response
            json == returned.fetch.value.json
        IN  /\ phase \in {"ParseOK", "TransportError", "HTTPError", "ParseError"}
            /\ (phase = "TransportError") <=>
                    (o.kind \in {"timeout", "cancelled", "network"})
            /\ (phase = "HTTPError") <=>
                    (o.kind = "response" /\ ~IsSuccess(o.status))
            /\ phase # "ParseOK" => IsErrorPayload(json)
            /\ (Succeeded /\ Format \notin {TSV, XML}) => phase = "ParseError"
            /\ (Succeeded /\ Format = XML /\ o.body = <<>>) => phase = "ParseError"
            /\ (Succeeded /\ Format = TSV /\ o.body = <<>>) =>
                    (phase = "ParseOK" /\ json = List(<<>>))
            /\ Len(returned.content) = 1
            /\ returned.content[1].body = JsonDumps(returned.fetch.value)

C3_OnceEach ==
    /\ \A f \in inflight :
          f \notin inflight' =>
              /\ returned = NoReturn
              /\ returned'.outcome = "returned"
              /\ returned'.request = f.request
              /\ returned'.query_url = f.query_url
              /\ inflight' = inflight \ {f}
    /\ (returned = NoReturn /\ returned'.outcome = "returned") =>
          \E f \in inflight : inflight' = inflight \ {f} /\ f \notin inflight'

C3_Eventually ==
    \A f \in FairFrames :
        (f \in inflight) ~> (Done /\ returned.request = f.request)

\* C3 as one property: the classification of every completion, one return
\* per in-flight invocation, and every in-flight invocation returning.
C3_FetchAlwaysCompletes ==
    /\ []C3_Classified
    /\ [][C3_OnceEach]_vars
    /\ C3_Eventually

C3_Witness ==
    /\ Done
    /\ returned.fetch.phase = "ParseError"
    /\ Format = XML
    /\ returned.response.body = <<"<", "r", ">", "x">>

\* C4: a non-2xx status S with body B yields an error payload whose message
\* contains S and not the text of B, and B is not parsed.
C4_HttpStatusError ==
    (Done /\ returned.response.kind = "response"
          /\ ~IsSuccess(returned.response.status)) =>
        LET json == returned.fetch.value.json
            message == DictGet(json.v, "message").v
            body == Decode(returned.response.body)
        IN  /\ returned.fetch.phase = "HTTPError"
            /\ IsErrorPayload(json)
            /\ Occurs(<<StatusText(returned.response.status)>>, message)
            /\ body # <<>> => ~Occurs(body, message)

C4_Witness ==
    /\ Done
    /\ returned.response.status = 500
    /\ returned.response.body = <<"<", "r", ">", "x">>
    /\ returned.fetch.phase = "HTTPError"

\* C5: two invocations whose parameter mappings hold the same field-to-value
\* pairs produce identical query strings, whatever the order the caller gave.
C5_QueryStringDeterminism ==
    \A f, g \in inflight :
        ({f.query_params[i] : i \in 1..Len(f.query_params)} =
         {g.query_params[i] : i \in 1..Len(g.query_params)})
            => f.query_string = g.query_string

\* The fields a request contributes to the query: those given a non-empty
\* value, and format when the request leaves it out.
FieldsOf(args) ==
    {k \in Keys(args) \ {"search"} : DictGet(args, k) \notin {None, <<>>}}
    \cup (IF HasKey(args, "format") /\ DictGet(args, "format") # None
          THEN {} ELSE {"format"})

EffectiveValue(args, k) ==
    IF HasKey(args, k) /\ DictGet(args, k) # None THEN DictGet(args, k) ELSE TSV

\* C6: the query string holds one key=value pair for exactly the non-empty
\* fields other than search, joined by "&"; with every field but format empty
\* it is exactly format=<value>.
C6_EmptyFieldOmission ==
    \A f \in inflight :
        LET args == f.request.arguments
            fields == FieldsOf(args)
            pairs == IF f.query_string = <<>> THEN <<>>
                     ELSE Split(f.query_string, "&")
        IN  /\ Len(pairs) = Cardinality(fields)
            /\ \A k \in fields :
                  \E i \in 1..Len(pairs) :
                      /\ pairs[i] = <<k, "=">> \o Quote(EffectiveValue(args, k))
                      /\ Len(pairs[i]) > 2
            /\ \A i \in 1..Len(pairs) : pairs[i][1] # "search"
            /\ fields = {"format"} =>
                  /\ f.query_string =
                        <<"format", "=">> \o EffectiveValue(args, "format")
                  /\ ~Occurs(<<"&">>, f.query_string)

C6_Witness ==
    \E f \in inflight :
        /\ DictGet(f.request.arguments, "taxon") = <<>>
        /\ DictGet(f.request.arguments, "geo") = <<>>
        /\ f.query_string = <<"format", "=", "t", "s", "v">>

\* C7: for a successful tsv response the first line is the header row and each
\* later line yields one record, in order, pairing headers and cells by
\* position; short rows give only the leading keys, no data rows give none.
C7_TsvParsing ==
    (Succeeded /\ Format = TSV /\ DecodeOk(returned.response.body)) =>
        /\ returned.fetch.phase = "ParseOK"
        /\ returned.fetch.value.json = ExpectedTsv(returned.response.body)

\* C8: an unrecognized tool name raises and sends no request; a recognized
\* name returns exactly one text item, its search kind fixed by the tool.
C8_Boundary ==
    /\ returned.outcome = "raised" =>
          /\ ~Recognized(returned.request.name)
          /\ returned.error.type = "ValueError"
          /\ returned.content = <<>>
    /\ Done =>
          /\ Recognized(returned.request.name)
          /\ Len(returned.content) = 1
          /\ returned.content[1].type = "text"
          /\ returned.search =
                (IF returned.request.name = "specimen-search"
                 THEN <<"specimen">> ELSE <<"combined">>)
          /\ SubSeq(returned.query_url, 1, 3) =
                <<API_BASE_URL>> \o returned.search \o <<"?">>
          /\ ~HasKey(returned.query_params, "search")
    /\ \A f \in inflight : Recognized(f.request.name)

C8_NoRequest ==
    (returned'.outcome = "raised" /\ returned # returned') =>
        inflight' = inflight

\* C8 as one property: the boundary's results, and no request for an unknown
\* tool name.
C8_UnknownTool == []C8_Boundary /\ [][C8_NoRequest]_vars

C8_Witness ==
    /\ Done
    /\ HasKey(returned.request.arguments, "search")
    /\ returned.request.name = "combined-search"
    /\ returned.search = <<"combined">>

\* What one invocation returns when it runs alone, from the initial
\* configuration.
RunAlone(request, outcome) ==
    Completion(Frame(request.name, request.arguments, DEFAULT_PARAMETERS_0),
               outcome)

\* C9: under any interleaving of in-flight invocations the configuration and
\* the caller's argument mapping are never mutated, and each invocation sends
\* and returns what it would when run alone.
C9_Independence ==
    /\ DEFAULT_PARAMETERS = DEFAULT_PARAMETERS_0
    /\ \A f \in inflight :
          /\ f.arguments = f.request.arguments
          /\ f.query_url =
                Frame(f.request.name, f.request.arguments,
                      DEFAULT_PARAMETERS_0).query_url
    /\ Done =>
          /\ returned.arguments = returned.request.arguments
          /\ returned.query_url =
                RunAlone(returned.request, returned.response).query_url
          /\ returned.content =
                RunAlone(returned.request, returned.response).content

C9_Witness ==
    /\ Done
    /\ Cardinality(inflight) = 2
    /\ \E f \in inflight : f.request.arguments # returned.request.arguments

\* C10: however the stream splits a successful body into chunks, base_fetch
\* returns what it returns for the body delivered whole.
C10_ChunkingIndependence ==
    Succeeded =>
        returned.fetch =
            FetchReturn(returned.query_params,
                        [returned.response EXCEPT
                            !.chunks = Whole(returned.response.body)])

=============================================================================
